---- MODULE Spec2Model ----
(***************************************************************************)
(* Inventory data layer of Skillwise: the products and inventory_history   *)
(* tables and the request handlers of routes/products.js,                  *)
(* routes/history.js and routes/import.js that read and write them.        *)
(* Each handler is an operator from the tables and a request to the answer *)
(* and the tables it leaves; an action commits what a handler leaves.      *)
(***************************************************************************)
EXTENDS Integers, Sequences, FiniteSets, TLC

VARIABLES products, history, productSeq, historySeq, calls

vars == <<products, history, productSeq, historySeq, calls>>

\* the database a request finds: both tables and their AUTOINCREMENT counters
Db ==
    [products |-> products, history |-> history,
     productSeq |-> productSeq, historySeq |-> historySeq]

---------------------------------------------------------------------------
(* Bounds of the model *)

\* product ids ever allocated by AUTOINCREMENT
MaxProducts == 2

\* inventory_history ids ever allocated by AUTOINCREMENT
MaxHistory == 2

\* data rows of an uploaded CSV file
MaxCsvRows == 2

\* requests in flight at once
MaxCalls == 2

---------------------------------------------------------------------------
(* JavaScript and SQL values *)

\* a body field or CSV column that is absent
Undefined == "<undefined>"

\* SQL NULL / JS null
Null == "<null>"

\* JS truthiness of a string-valued field: undefined, null and "" are falsy
Falsy(x) == x = Undefined \/ x = Null \/ x = ""

\* x || null
OrNull(x) == IF Falsy(x) THEN Null ELSE x

\* x || 'active'
OrActive(x) == IF Falsy(x) THEN "active" ELSE x

\* COALESCE(?, column)
Coalesce(param, column) == IF param = Null THEN column ELSE param

\* String.prototype.trim / validator's trim sanitizer, on space-padded text
RECURSIVE Trim(_)
Trim(s) ==
    IF Len(s) = 0 THEN s
    ELSE IF SubSeq(s, 1, 1) = " " THEN Trim(SubSeq(s, 2, Len(s)))
    ELSE IF SubSeq(s, Len(s), Len(s)) = " " THEN Trim(SubSeq(s, 1, Len(s) - 1))
    ELSE s

UpperCase ==
    <<"A", "B", "C", "D", "E", "F", "G", "H", "I", "J", "K", "L", "M", "N", "O",
      "P", "Q", "R", "S", "T", "U", "V", "W", "X", "Y", "Z">>

LowerCase ==
    <<"a", "b", "c", "d", "e", "f", "g", "h", "i", "j", "k", "l", "m", "n", "o",
      "p", "q", "r", "s", "t", "u", "v", "w", "x", "y", "z">>

\* LIKE folds the case of ASCII letters
FoldChar(c) ==
    IF \E i \in 1..Len(UpperCase) : UpperCase[i] = c
    THEN LowerCase[CHOOSE i \in 1..Len(UpperCase) : UpperCase[i] = c]
    ELSE c

RECURSIVE Fold(_)
Fold(s) == IF Len(s) = 0 THEN s ELSE FoldChar(SubSeq(s, 1, 1)) \o Fold(SubSeq(s, 2, Len(s)))

\* a request's stock: absent, a JSON number, a string of digits (JSON string
\* or form-encoded body), or a string that is no integer
NoStock == [t |-> "undef", v |-> 0]

NumStock(n) == [t |-> "num", v |-> n]

StrStock(n) == [t |-> "str", v |-> n]

TextStock == [t |-> "text", v |-> 0]

\* mutant of IsIntMin0: isInt() without the min option
IsIntAny(s) == s.t \in {"num", "str"}

\* validator isInt({ min: 0 }) on the stringified value
IsIntMin0(s) == s.t \in {"num", "str"} /\ s.v >= 0

\* stock !== currentProduct.stock : strict inequality, a string never equals
\* the number read from the store
StockStrictNeq(s, current) == s.t # "num" \/ s.v # current

\* the INTEGER column affinity turns a bound digit string into its number
IntegerAffinity(s) == s.v

\* parseInt and the digits it reads
Digits == <<"0", "1", "2", "3", "4", "5", "6", "7", "8", "9">>

IsDigit(c) == \E d \in 1..Len(Digits) : Digits[d] = c

DigitValue(c) == (CHOOSE d \in 1..Len(Digits) : Digits[d] = c) - 1

\* the length of the run of digits of s that starts at position i
RECURSIVE DigitRun(_, _)
DigitRun(s, i) ==
    IF i <= Len(s) /\ IsDigit(SubSeq(s, i, i)) THEN 1 + DigitRun(s, i + 1) ELSE 0

\* the value of the digits s[i..j]
RECURSIVE DigitsValue(_, _, _)
DigitsValue(s, i, j) ==
    IF j < i THEN 0
    ELSE 10 * DigitsValue(s, i, j - 1) + DigitValue(SubSeq(s, j, j))

NaN == [nan |-> TRUE, v |-> 0]

\* parseInt(text): an optional sign and the leading digits; NaN without digits
ParseInt(text) ==
    IF text = Undefined THEN NaN
    ELSE LET s == Trim(text)
             signed == Len(s) > 0 /\ SubSeq(s, 1, 1) \in {"-", "+"}
             first == IF signed THEN 2 ELSE 1
             n == DigitRun(s, first)
             magnitude == DigitsValue(s, first, first + n - 1)
         IN  IF n = 0 THEN NaN
             ELSE [nan |-> FALSE,
                   v |-> IF signed /\ SubSeq(s, 1, 1) = "-" THEN 0 - magnitude
                         ELSE magnitude]

---------------------------------------------------------------------------
(* middleware/validation.js *)

Statuses == {"active", "inactive", "discontinued"}

MaxNameLen == 255

MaxUnitLen == 50

MaxCategoryLen == 100

MaxBrandLen == 100

Letters ==
    {"a", "b", "c", "d", "e", "f", "g", "h", "i", "j", "k", "l", "m", "n", "o",
     "p", "q", "r", "s", "t", "u", "v", "w", "x", "y", "z"}

\* new URL(value) succeeds: the text opens with a scheme of letters and ':'
IsURL(s) ==
    \E i \in 2..Len(s) :
        /\ SubSeq(s, i, i) = ":"
        /\ \A j \in 1..(i - 1) : SubSeq(s, j, j) \in Letters

\* .optional().trim().isLength({ max }) of unit, category and brand
OptionalTextOk(x, max) == x = Undefined \/ Len(Trim(x)) <= max

\* .optional().isIn(['active', 'inactive', 'discontinued'])
OptionalStatusOk(x) == x = Undefined \/ x \in Statuses

\* .optional({ nullable: true, checkFalsy: true }).custom(new URL(value))
OptionalImageOk(x) == Falsy(x) \/ IsURL(x)

\* the trim sanitizer rewrites the body field it ran on
TrimField(x) == IF x = Undefined THEN Undefined ELSE Trim(x)

Sanitize(b) ==
    [b EXCEPT !.name = TrimField(b.name), !.unit = TrimField(b.unit),
              !.category = TrimField(b.category), !.brand = TrimField(b.brand)]

\* productValidationRules: validationResult(req) is empty
CreateValid(b) ==
    /\ b.name # Undefined /\ Len(Trim(b.name)) >= 1 /\ Len(Trim(b.name)) <= MaxNameLen
    /\ OptionalTextOk(b.unit, MaxUnitLen)
    /\ OptionalTextOk(b.category, MaxCategoryLen)
    /\ OptionalTextOk(b.brand, MaxBrandLen)
    /\ IsIntMin0(b.stock)
    /\ OptionalStatusOk(b.status)
    /\ OptionalImageOk(b.image)

\* updateProductValidationRules: validationResult(req) is empty
UpdateValid(id, b) ==
    /\ id >= 1
    /\ b.name = Undefined
       \/ (Len(Trim(b.name)) >= 1 /\ Len(Trim(b.name)) <= MaxNameLen)
    /\ OptionalTextOk(b.unit, MaxUnitLen)
    /\ OptionalTextOk(b.category, MaxCategoryLen)
    /\ OptionalTextOk(b.brand, MaxBrandLen)
    /\ b.stock.t = "undef" \/ IsIntMin0(b.stock)
    /\ OptionalStatusOk(b.status)
    /\ OptionalImageOk(b.image)

\* validator's isInt on the text of a query parameter: an optional sign, then
\* 0 or digits without a leading zero
IsIntText(s) ==
    LET signed == Len(s) > 0 /\ SubSeq(s, 1, 1) \in {"-", "+"}
        first == IF signed THEN 2 ELSE 1
    IN  /\ Len(s) >= first
        /\ DigitRun(s, first) = Len(s) - first + 1
        /\ SubSeq(s, first, first) = "0" => Len(s) = first

\* .optional({ checkFalsy: true }).isInt({ min, max }) of a query parameter
OptionalIntOk(x, min, max) ==
    Falsy(x) \/ (IsIntText(x) /\ ParseInt(x).v >= min /\ ParseInt(x).v <= max)

\* .optional({ checkFalsy: true }).isInt({ min }) of a query parameter
OptionalIntMinOk(x, min) == Falsy(x) \/ (IsIntText(x) /\ ParseInt(x).v >= min)

MaxLimit == 100

DefaultLimit == 50

\* const allowedSortFields
AllowedSortFields ==
    {"name", "category", "brand", "stock", "status", "created_at", "updated_at"}

SortOrders == {"asc", "desc"}

StockBuckets == {"out_of_stock", "low_stock", "in_stock"}

\* searchValidationRules: validationResult(req) is empty
SearchValid(q) ==
    /\ Falsy(q.status) \/ q.status \in StockBuckets
    /\ OptionalIntMinOk(q.page, 1)
    /\ OptionalIntOk(q.limit, 1, MaxLimit)
    /\ Falsy(q.sort) \/ q.sort \in AllowedSortFields
    /\ Falsy(q.order) \/ q.order \in SortOrders

\* historyValidationRules
HistoryValid(id) == id >= 1

---------------------------------------------------------------------------
(* The store: schema.sql and the statements the handlers run on it *)

\* SELECT * FROM products WHERE id = ?
SelectById(P, id) == {p \in P : p.id = id}

\* mutant of SelectByName: the comparison ignores case (COLLATE NOCASE)
SelectByNameNoCase(P, name) == {p \in P : Fold(p.name) = Fold(name)}

\* SELECT id FROM products WHERE name = ?
SelectByName(P, name) == {p \in P : p.name = name}

\* mutant of SelectByNameNotId: AND id = ? written for AND id != ?
SelectByNameAndId(P, name, id) == {p \in P : p.name = name /\ p.id = id}

\* SELECT id FROM products WHERE name = ? AND id != ?
SelectByNameNotId(P, name, id) == {p \in P : p.name = name /\ p.id # id}

\* name TEXT UNIQUE NOT NULL: the statement writing `row` fails (SQLITE_CONSTRAINT)
UniqueViolation(P, row) == \E p \in P : p.id # row.id /\ p.name = row.name

\* INSERT INTO products (name, unit, category, brand, stock, status, image)
ProductRow(id, name, unit, category, brand, stock, status, image) ==
    [id |-> id, name |-> name, unit |-> unit, category |-> category,
     brand |-> brand, stock |-> stock, status |-> status, image |-> image]

\* INSERT INTO inventory_history (product_id, old_quantity, new_quantity,
\* change_amount, reason)
HistoryRow(id, productId, old, new, change, reason) ==
    [id |-> id, product_id |-> productId, old_quantity |-> old,
     new_quantity |-> new, change_amount |-> change, reason |-> reason]

\* mutant of DeleteHistoryOf: the history of the product is left behind
DeleteHistoryOfNothing(h, productId) == h

\* mutant of DeleteHistoryOf: DELETE FROM inventory_history, every row
DeleteHistoryOfAll(h, productId) == SelectSeq(h, LAMBDA r : FALSE)

\* DELETE FROM inventory_history WHERE product_id = ?
DeleteHistoryOf(h, productId) == SelectSeq(h, LAMBDA r : r.product_id # productId)

\* the rows of inventory_history h as a set
RowSet(h) == {h[i] : i \in 1..Len(h)}

HistoryRows == RowSet(history)

---------------------------------------------------------------------------
(* Requests and responses *)

NoBody ==
    [name |-> Undefined, unit |-> Undefined, category |-> Undefined,
     brand |-> Undefined, stock |-> NoStock, status |-> Undefined,
     image |-> Undefined]

NoCounts == [processed |-> 0, added |-> 0, skipped |-> 0, errors |-> 0]

\* req.query of GET / and GET /summary without parameters
NoQuery ==
    [name |-> Undefined, category |-> Undefined, status |-> Undefined,
     page |-> Undefined, limit |-> Undefined, sort |-> Undefined,
     order |-> Undefined]

\* an upload: req.file is set or not, the CSV parses or not, its data rows
NoFile == [present |-> FALSE, malformed |-> FALSE, rows |-> <<>>]

\* what a handler leaves: res.status(code).json({ data }), data being the rows
\* sent back if any, and the database after its statements
Response(db, code, data) ==
    [db |-> db, code |-> code, data |-> data, counts |-> NoCounts]

---------------------------------------------------------------------------
(* routes/products.js *)

\* the row POST / inserts: unit || null, ..., stock, status || 'active'
NewProductRow(id, b) ==
    ProductRow(id, b.name, OrNull(b.unit), OrNull(b.category), OrNull(b.brand),
               IntegerAffinity(b.stock), OrActive(b.status), OrNull(b.image))

\* mutant of InitialHistory: the row is written only for a positive stock
InitialHistoryIfPositive(h, hid, productId, stock) ==
    IF IntegerAffinity(stock) > 0
    THEN Append(h, HistoryRow(hid, productId, 0, IntegerAffinity(stock),
                              IntegerAffinity(stock), "Initial stock"))
    ELSE h

\* [result.id, 0, stock, stock, 'Initial stock'], inserted whatever the stock
InitialHistory(h, hid, productId, stock) ==
    Append(h, HistoryRow(hid, productId, 0, IntegerAffinity(stock),
                         IntegerAffinity(stock), "Initial stock"))

\* router.post('/')
CreateProduct(db, body) ==
    IF ~CreateValid(body) THEN Response(db, 400, {})
    ELSE LET b == Sanitize(body)
             row == NewProductRow(db.productSeq + 1, b)
         IN  IF SelectByName(db.products, b.name) # {} THEN Response(db, 409, {})
             ELSE IF UniqueViolation(db.products, row) THEN Response(db, 500, {})
             ELSE Response([products |-> db.products \cup {row},
                            productSeq |-> row.id,
                            history |-> InitialHistory(db.history, db.historySeq + 1,
                                                       row.id, b.stock),
                            historySeq |-> db.historySeq + 1],
                           201, {row})

\* name && name !== currentProduct.name
NameChanging(name, current) == ~Falsy(name) /\ name # current.name

\* mutant of StockChanging: stock && ..., a stock of 0 counts as absent
StockChangingTruthy(stock, current) ==
    stock.t # "undef" /\ stock.v # 0 /\ StockStrictNeq(stock, current.stock)

\* stock !== undefined && stock !== currentProduct.stock
StockChanging(stock, current) ==
    stock.t # "undef" /\ StockStrictNeq(stock, current.stock)

\* mutant of ManualUpdateHistory: changeAmount = currentProduct.stock - stock
ManualUpdateHistoryReversed(h, hid, current, stock) ==
    Append(h, HistoryRow(hid, current.id, current.stock, IntegerAffinity(stock),
                         current.stock - stock.v, "Manual update"))

\* [productId, currentProduct.stock, stock, stock - currentProduct.stock,
\*  'Manual update']
ManualUpdateHistory(h, hid, current, stock) ==
    Append(h, HistoryRow(hid, current.id, current.stock, IntegerAffinity(stock),
                         stock.v - current.stock, "Manual update"))

\* UPDATE products SET name = COALESCE(?, name), ... WHERE id = ?
\* with [name || null, unit || null, ..., stock !== undefined ? stock : null, ...]
MergedRow(current, b) ==
    [id |-> current.id,
     name |-> Coalesce(OrNull(b.name), current.name),
     unit |-> Coalesce(OrNull(b.unit), current.unit),
     category |-> Coalesce(OrNull(b.category), current.category),
     brand |-> Coalesce(OrNull(b.brand), current.brand),
     stock |-> IF b.stock.t # "undef" THEN IntegerAffinity(b.stock) ELSE current.stock,
     status |-> Coalesce(OrNull(b.status), current.status),
     image |-> Coalesce(OrNull(b.image), current.image)]

\* mutant of UpdateProduct: the history row is written before the name check
UpdateProductLogsFirst(db, id, body) ==
    IF ~UpdateValid(id, body) THEN Response(db, 400, {})
    ELSE IF SelectById(db.products, id) = {} THEN Response(db, 404, {})
    ELSE LET current == CHOOSE p \in db.products : p.id = id
             b == Sanitize(body)
             merged == MergedRow(current, b)
             logged == IF StockChanging(b.stock, current)
                       THEN [db EXCEPT
                               !.history = ManualUpdateHistory(@, db.historySeq + 1,
                                                               current, b.stock),
                               !.historySeq = @ + 1]
                       ELSE db
         IN  IF NameChanging(b.name, current)
                /\ SelectByNameNotId(db.products, b.name, id) # {}
             THEN Response(logged, 409, {})
             ELSE IF UniqueViolation(db.products, merged)
             THEN Response(logged, 500, {})
             ELSE Response([logged EXCEPT
                              !.products = (@ \ {current}) \cup {merged}],
                           200, {merged})

\* router.put('/:id')
UpdateProduct(db, id, body) ==
    IF ~UpdateValid(id, body) THEN Response(db, 400, {})
    ELSE IF SelectById(db.products, id) = {} THEN Response(db, 404, {})
    ELSE LET current == CHOOSE p \in db.products : p.id = id
             b == Sanitize(body)
             merged == MergedRow(current, b)
             logged == IF StockChanging(b.stock, current)
                       THEN [db EXCEPT
                               !.history = ManualUpdateHistory(@, db.historySeq + 1,
                                                               current, b.stock),
                               !.historySeq = @ + 1]
                       ELSE db
         IN  IF NameChanging(b.name, current)
                /\ SelectByNameNotId(db.products, b.name, id) # {}
             THEN Response(db, 409, {})
             ELSE IF UniqueViolation(db.products, merged)
             THEN Response(logged, 500, {})
             ELSE Response([logged EXCEPT
                              !.products = (@ \ {current}) \cup {merged}],
                           200, {merged})

\* router.delete('/:id')
DeleteProduct(db, id) ==
    IF SelectById(db.products, id) = {} THEN Response(db, 404, {})
    ELSE Response([db EXCEPT !.history = DeleteHistoryOf(@, id),
                             !.products = @ \ SelectById(db.products, id)],
                  200, {})

\* router.get('/:id')
GetProduct(db, id) ==
    IF SelectById(db.products, id) = {} THEN Response(db, 404, {})
    ELSE Response(db, 200, SelectById(db.products, id))

\* the stock buckets of the status filter
LowStockMax == 10

\* mutant of StockFilter: low_stock written as stock >= 0 AND stock < 10
StockFilterOffByOne(status, stock) ==
    IF status = "out_of_stock" THEN stock = 0
    ELSE IF status = "low_stock" THEN stock >= 0 /\ stock < LowStockMax
    ELSE IF status = "in_stock" THEN stock > LowStockMax
    ELSE TRUE

\* status === 'out_of_stock' | 'low_stock' | 'in_stock' : the WHERE fragment
StockFilter(status, stock) ==
    IF status = "out_of_stock" THEN stock = 0
    ELSE IF status = "low_stock" THEN stock > 0 /\ stock <= LowStockMax
    ELSE IF status = "in_stock" THEN stock > LowStockMax
    ELSE TRUE

\* name LIKE '%pattern%'
Like(name, pattern) ==
    \E i \in 1..(Len(name) + 1) :
        /\ i + Len(pattern) - 1 <= Len(name)
        /\ Fold(SubSeq(name, i, i + Len(pattern) - 1)) = Fold(pattern)

\* WHERE 1=1 ${whereClause} of GET / : name, category and status filters
ListWhere(q, p) ==
    /\ Falsy(q.name) \/ Like(p.name, q.name)
    /\ Falsy(q.category) \/ p.category = q.category
    /\ Falsy(q.status) \/ StockFilter(q.status, p.stock)

\* the products a GET / request matches
ListMatching(db, q) == {p \in db.products : ListWhere(q, p)}

\* SELECT COUNT(*) as total FROM products WHERE 1=1 ${whereClause}
ListTotal(db, q) == Cardinality(ListMatching(db, q))

\* the bytes of the text the model handles, in the order memcmp gives them
AsciiOrder ==
    " +-.0123456789:<>ABCDEFGHIJKLMNOPQRSTUVWXYZ_abcdefghijklmnopqrstuvwxyz"

CharCode(c) == CHOOSE i \in 1..Len(AsciiOrder) : SubSeq(AsciiOrder, i, i) = c

\* a < b under the BINARY collation of a TEXT column
RECURSIVE TextLess(_, _)
TextLess(a, b) ==
    IF Len(b) = 0 THEN FALSE
    ELSE IF Len(a) = 0 THEN TRUE
    ELSE IF SubSeq(a, 1, 1) = SubSeq(b, 1, 1)
         THEN TextLess(SubSeq(a, 2, Len(a)), SubSeq(b, 2, Len(b)))
    ELSE CharCode(SubSeq(a, 1, 1)) < CharCode(SubSeq(b, 1, 1))

\* x < y as ORDER BY compares two values of a TEXT column: NULL first, then
\* text by its bytes
ColumnLess(x, y) ==
    IF x = y THEN FALSE
    ELSE IF x = Null THEN TRUE
    ELSE IF y = Null THEN FALSE
    ELSE TextLess(x, y)

\* { page = 1, limit = 50, sort = 'name', order = 'asc' } = req.query, the
\* numbers as the arithmetic of the handler reads them
PageOf(q) == IF q.page = Undefined THEN 1 ELSE ParseInt(q.page).v

LimitOf(q) == IF q.limit = Undefined THEN DefaultLimit ELSE ParseInt(q.limit).v

\* mutant of Offset: the first page skips a page, offset = page * limit
OffsetFromPage(q) == PageOf(q) * LimitOf(q)

\* const offset = (page - 1) * limit
Offset(q) == (PageOf(q) - 1) * LimitOf(q)

\* allowedSortFields.includes(sort) ? sort : 'name'
SortField(q) ==
    IF q.sort = Undefined THEN "name"
    ELSE IF q.sort \in AllowedSortFields THEN q.sort
    ELSE "name"

\* order.toLowerCase() === 'desc' ? 'DESC' : 'ASC'
SortOrder(q) ==
    IF q.order # Undefined /\ Fold(q.order) = "desc" THEN "DESC" ELSE "ASC"

\* row p sorts before row q under ORDER BY field; the timestamps that
\* CURRENT_TIMESTAMP wrote are not told apart, rows are tied on them
RowLess(p, q, field) ==
    IF field = "name" THEN ColumnLess(p.name, q.name)
    ELSE IF field = "category" THEN ColumnLess(p.category, q.category)
    ELSE IF field = "brand" THEN ColumnLess(p.brand, q.brand)
    ELSE IF field = "stock" THEN p.stock < q.stock
    ELSE IF field = "status" THEN ColumnLess(p.status, q.status)
    ELSE FALSE

\* p may come first among the rows of S under ORDER BY field dir: no row of S
\* sorts before it
MayComeFirst(S, p, field, dir) ==
    \A q \in S : IF dir = "DESC" THEN ~RowLess(p, q, field)
                 ELSE ~RowLess(q, p, field)

\* the orders ORDER BY field dir may return the rows of S in: rows tied on the
\* field come in any order
RECURSIVE OrderBy(_, _, _)
OrderBy(S, field, dir) ==
    IF S = {} THEN {<<>>}
    ELSE UNION {{<<p>> \o rest : rest \in OrderBy(S \ {p}, field, dir)} :
                    p \in {x \in S : MayComeFirst(S, x, field, dir)}}

\* LIMIT ? OFFSET ?
LimitOffset(s, limit, offset) ==
    LET from == IF offset < 0 THEN 0 ELSE offset
    IN  SubSeq(s, from + 1, IF from + limit < Len(s) THEN from + limit ELSE Len(s))

\* Math.ceil(a / b)
Ceil(a, b) == (a + b - 1) \div b

\* router.get('/') : the answers a request may get
ListProducts(db, q) ==
    IF ~SearchValid(q)
    THEN {[code |-> 400, data |-> <<>>,
           pagination |-> [page |-> 0, limit |-> 0, total |-> 0, pages |-> 0]]}
    ELSE LET page == PageOf(q)
             limit == LimitOf(q)
             offset == Offset(q)
             total == ListTotal(db, q)
         IN  {[code |-> 200,
               data |-> LimitOffset(s, limit, offset),
               pagination |-> [page |-> page, limit |-> limit, total |-> total,
                               pages |-> Ceil(total, limit)]] :
                s \in OrderBy(ListMatching(db, q), SortField(q), SortOrder(q))}

---------------------------------------------------------------------------
(* routes/history.js *)

\* router.get('/product/:productId') : the rows of one product
GetHistory(db, productId) ==
    IF ~HistoryValid(productId) THEN Response(db, 400, {})
    ELSE IF SelectById(db.products, productId) = {} THEN Response(db, 404, {})
    ELSE Response(db, 200, {r \in RowSet(db.history) : r.product_id = productId})

\* the change_date values CURRENT_TIMESTAMP may have given n rows written one
\* after the other: whole seconds that never go back, so rows written within
\* one second carry the same value
ChangeDates(n) ==
    {d \in [1..n -> 1..n] : \A i \in 1..n : i < n => d[i] <= d[i + 1]}

\* ORDER BY h.change_date DESC over the rows at positions I: the orders it may
\* return them in, rows of one change_date in any order
RECURSIVE OrderByChangeDateDesc(_, _)
OrderByChangeDateDesc(I, d) ==
    IF I = {} THEN {<<>>}
    ELSE UNION {{<<i>> \o rest : rest \in OrderByChangeDateDesc(I \ {i}, d)} :
                    i \in {x \in I : \A y \in I : d[y] <= d[x]}}

\* router.get('/product/:productId') : the lists a 200 answer may carry
GetHistoryList(db, productId) ==
    LET mine == {i \in 1..Len(db.history) :
                    /\ db.history[i].product_id = productId
                    /\ SelectById(db.products, productId) # {}}
    IN  UNION {{[k \in 1..Len(s) |-> db.history[s[k]]] :
                    s \in OrderByChangeDateDesc(mine, d)} :
                d \in ChangeDates(Len(db.history))}

\* WHERE 1=1 ${whereClause} of GET /summary : category and status filters;
\* the route has no validation rules, any other status text filters nothing
SummaryWhere(q, p) ==
    /\ Falsy(q.category) \/ p.category = q.category
    /\ Falsy(q.status) \/ StockFilter(q.status, p.stock)

\* mutant of StockLevel: WHEN stock < 10 THEN 'low_stock'
StockLevelBelowTen(stock) ==
    IF stock = 0 THEN "out_of_stock"
    ELSE IF stock < LowStockMax THEN "low_stock"
    ELSE IF stock >= LowStockMax THEN "in_stock"
    ELSE Null

\* CASE WHEN stock = 0 ... WHEN stock <= 10 ... WHEN stock > 10 ... END
StockLevel(stock) ==
    IF stock = 0 THEN "out_of_stock"
    ELSE IF stock <= LowStockMax THEN "low_stock"
    ELSE IF stock > LowStockMax THEN "in_stock"
    ELSE Null

\* SELECT status, COUNT(*) ... GROUP BY status : one row per status present
StatusStats(S) ==
    {[key |-> k, count |-> Cardinality({p \in S : p.status = k})] :
        k \in {p.status : p \in S}}

\* SELECT CASE ... END as stock_level, COUNT(*) ... GROUP BY stock_level
StockStats(S) ==
    {[key |-> k, count |-> Cardinality({p \in S : StockLevel(p.stock) = k})] :
        k \in {StockLevel(p.stock) : p \in S}}

\* the key whose assignment sets no own property of a JavaScript object
ProtoKey == "__proto__"

\* stats.reduce((acc, stat) => { acc[stat.key] = stat.count; return acc }, {})
\* : the object as the function from its own keys to their values
ReduceToObject(stats) ==
    [k \in {s.key : s \in stats} \ {ProtoKey} |->
        (CHOOSE s \in stats : s.key = k).count]

RECURSIVE StockTotal(_)
StockTotal(S) ==
    IF S = {} THEN 0
    ELSE LET p == CHOOSE x \in S : TRUE IN p.stock + StockTotal(S \ {p})

\* SELECT SUM(stock) : NULL over no rows
SumStock(S) == [null |-> S = {}, v |-> StockTotal(S)]

\* totalValue.total || 0
OrZero(x) == IF x.null \/ x.v = 0 THEN 0 ELSE x.v

\* mutant of RecentActivity: the stock filter narrows the count as well
RecentActivityOfFiltered(db, q) ==
    Cardinality({i \in 1..Len(db.history) :
        (Falsy(q.category) /\ Falsy(q.status))
        \/ \E p \in db.products :
            p.id = db.history[i].product_id /\ SummaryWhere(q, p)})

\* the rows GET /summary counts as recent activity: every row the model holds
\* was written within the last 30 days
RecentActivity(db, q) ==
    Cardinality({i \in 1..Len(db.history) :
        Falsy(q.category)
        \/ \E p \in db.products :
            p.id = db.history[i].product_id /\ p.category = q.category})

\* router.get('/summary')
GetSummary(db, q) ==
    LET S == {p \in db.products : SummaryWhere(q, p)}
    IN  [code |-> 200,
         totalProducts |-> Cardinality(S),
         statusDistribution |-> ReduceToObject(StatusStats(S)),
         stockLevels |-> ReduceToObject(StockStats(S)),
         recentActivity |-> RecentActivity(db, q),
         totalInventoryValue |-> OrZero(SumStock(S))]

---------------------------------------------------------------------------
(* the dashboard *)

\* getStockStatus(product.stock), the stock a number of the API's JSON
GetStockStatus(stock) ==
    IF stock = 0 THEN [status |-> "Out of Stock", class |-> "status-out-of-stock"]
    ELSE IF stock <= 10 THEN [status |-> "Low Stock", class |-> "status-low-stock"]
    ELSE [status |-> "In Stock", class |-> "status-in-stock"]

---------------------------------------------------------------------------
(* routes/import.js *)

\* parseInt(row.stock) || 0
ParseStock(text) == LET parsed == ParseInt(text) IN IF parsed.nan THEN 0 ELSE parsed.v

\* mapValues: ({ value }) => value.trim()
CsvRow(row) ==
    [name |-> TrimField(row.name), unit |-> TrimField(row.unit),
     category |-> TrimField(row.category), brand |-> TrimField(row.brand),
     stock |-> TrimField(row.stock), status |-> TrimField(row.status),
     image |-> TrimField(row.image)]

\* const product = { name: row.name, unit: row.unit || null, ... }
CsvProduct(id, row) ==
    ProductRow(id, row.name, OrNull(row.unit), OrNull(row.category),
               OrNull(row.brand), ParseStock(row.stock), OrActive(row.status),
               OrNull(row.image))

\* if (product.stock > 0) insert [result.id, 0, stock, stock, 'Imported from CSV']
ImportHistory(h, hid, product) ==
    IF product.stock > 0
    THEN Append(h, HistoryRow(hid, product.id, 0, product.stock, product.stock,
                              "Imported from CSV"))
    ELSE h

\* mutant of Skip: the error is recorded, the row is not counted as skipped
SkipUncounted(acc) == [acc EXCEPT !.errors = @ + 1]

\* errors.push(...); skipped++; continue
Skip(acc) == [acc EXCEPT !.skipped = @ + 1, !.errors = @ + 1]

\* one pass of: for (const row of csvData)
ImportRow(acc, row) ==
    LET a == [acc EXCEPT !.processed = @ + 1]
        product == CsvProduct(acc.productSeq + 1, row)
    IN  IF Falsy(row.name) THEN Skip(a)
        ELSE IF SelectByName(a.products, row.name) # {} THEN Skip(a)
        ELSE IF product.stock < 0 THEN Skip(a)
        ELSE IF UniqueViolation(a.products, product) THEN Skip(a)
        ELSE [a EXCEPT !.products = @ \cup {product},
                       !.productSeq = @ + 1,
                       !.history = ImportHistory(@, a.historySeq + 1, product),
                       !.historySeq = Len(ImportHistory(a.history, 0, product))
                                      - Len(a.history) + @,
                       !.added = @ + 1]

RECURSIVE ImportRows(_, _)
ImportRows(acc, rows) ==
    IF rows = <<>> THEN acc
    ELSE ImportRows(ImportRow(acc, CsvRow(Head(rows))), Tail(rows))

\* the import's counters and tables before the first row of a file
ImportStart(db) ==
    [products |-> db.products, history |-> db.history,
     productSeq |-> db.productSeq, historySeq |-> db.historySeq,
     processed |-> 0, added |-> 0, skipped |-> 0, errors |-> 0]

\* router.post('/products')
ImportProducts(db, file) ==
    IF ~file.present \/ file.malformed THEN Response(db, 400, {})
    ELSE LET end == ImportRows(ImportStart(db), file.rows)
         IN  [db |-> [products |-> end.products, history |-> end.history,
                      productSeq |-> end.productSeq, historySeq |-> end.historySeq],
              code |-> 200,
              data |-> {},
              counts |-> [processed |-> end.processed, added |-> end.added,
                          skipped |-> end.skipped, errors |-> end.errors]]

---------------------------------------------------------------------------
(* The requests the model issues *)

\* names as sent: padded, differing in case only, blank, absent
NameInputs == {"Pen", " pen ", "  ", Undefined}

\* stocks as sent: absent, no integer, negative, the bucket edges, a digit string
StockInputs ==
    {NoStock, TextStock, NumStock(-1), NumStock(0), NumStock(10), NumStock(11),
     StrStock(10)}

\* a request that sets every field
FullBody ==
    [name |-> "Pen", unit |-> " kg", category |-> "tools", brand |-> "Acme",
     stock |-> NumStock(10), status |-> "inactive", image |-> "https://x"]

CreateBodies ==
    {[NoBody EXCEPT !.name = n, !.stock = s] : n \in NameInputs, s \in StockInputs}
    \cup {FullBody}

UpdateBodies ==
    {[NoBody EXCEPT !.name = n, !.stock = s] : n \in NameInputs, s \in StockInputs}

\* ids of requests: 0 is no valid id, the others are allocated sooner or later
Ids == 0..MaxProducts

CsvCells(name, stock) ==
    [name |-> name, unit |-> Undefined, category |-> Undefined,
     brand |-> Undefined, stock |-> stock, status |-> Undefined,
     image |-> Undefined]

CsvRowInputs ==
    {CsvCells("", "10"), CsvCells(" pen", "11.5"), CsvCells("Pen", "-1"),
     CsvCells("Pen ", "abc"),
     [CsvCells("Pen", "10") EXCEPT !.status = ProtoKey]}

RECURSIVE SeqsUpTo(_, _)
SeqsUpTo(S, n) ==
    IF n = 0 THEN {<<>>}
    ELSE SeqsUpTo(S, n - 1)
         \cup {Append(q, x) : q \in SeqsUpTo(S, n - 1), x \in S}

CsvFiles ==
    {NoFile, [present |-> TRUE, malformed |-> TRUE, rows |-> <<>>]}
    \cup {[present |-> TRUE, malformed |-> FALSE, rows |-> rows] :
            rows \in SeqsUpTo(CsvRowInputs, MaxCsvRows)}

\* queries of GET /: pages within and beyond the result, limits at and over
\* the edges, both orders, by name and by stock; a bucket and a name filter
\* with paging; a sort field the handler does not know; parameters of empty
\* text are left out
ListQueries ==
    {[NoQuery EXCEPT !.page = pg, !.limit = lm, !.sort = so, !.order = od] :
        pg \in {Undefined, "0", "1", "2", "3"}, lm \in {Undefined, "1", "2", "101"},
        so \in {Undefined, "stock"}, od \in {Undefined, "desc"}}
    \cup {[NoQuery EXCEPT !.name = nm, !.status = st, !.page = pg, !.limit = "1"] :
            nm \in {Undefined, "pe"}, st \in {Undefined, "low_stock"},
            pg \in {"1", "2"}}
    \cup {[NoQuery EXCEPT !.sort = "price", !.order = od] : od \in {Undefined, "desc"}}

\* queries of GET /summary: no filter, a category, each bucket, both
SummaryQueries ==
    {[NoQuery EXCEPT !.category = c, !.status = st] :
        c \in {Undefined, "tools"}, st \in {Undefined} \cup StockBuckets}

\* the ids of the requests in flight
Calls == 1..MaxCalls

\* currentProduct before its SELECT has answered
NoProduct == ProductRow(0, "", Null, Null, Null, 0, Null, Null)

\* a request not yet made: where it stands, what it read from the request and
\* what it answers
Idle ==
    [op |-> "none", pc |-> "idle", body |-> NoBody, rows |-> <<>>, id |-> 0,
     code |-> 0, processed |-> 0, added |-> 0, skipped |-> 0, errors |-> <<>>,
     cur |-> NoProduct]

\* bodies of PUT /:id sent together: a stock, and a new name with another
RaceUpdates ==
    {[NoBody EXCEPT !.stock = NumStock(11)],
     [NoBody EXCEPT !.name = "pen", !.stock = NumStock(12)]}

\* the ids racing requests name: the first product and the second
RaceIds == {1, 2}

\* bodies of POST / sent together: the same name twice, another name, no stock
RaceBodies ==
    {[NoBody EXCEPT !.name = "Pen", !.stock = NumStock(10)],
     [NoBody EXCEPT !.name = " pen ", !.stock = NumStock(0)],
     [NoBody EXCEPT !.name = "Pen"]}

\* files uploaded while other requests run
RaceFiles ==
    {NoFile,
     [present |-> TRUE, malformed |-> FALSE,
      rows |-> <<CsvCells("Pen", "10"), CsvCells("pen", "0")>>],
     [present |-> TRUE, malformed |-> FALSE,
      rows |-> <<CsvCells("Pen", "-1"), CsvCells("pen", "11")>>],
     [present |-> TRUE, malformed |-> FALSE,
      rows |-> <<CsvCells("", "1"), CsvCells("Pen", "10")>>],
     [present |-> TRUE, malformed |-> FALSE,
      rows |-> <<CsvCells("Pen", "10"), CsvCells(" Pen", "0")>>]}

---------------------------------------------------------------------------
(* The specification: requests handled one at a time *)

Init ==
    /\ products = {}
    /\ history = <<>>
    /\ productSeq = 0
    /\ historySeq = 0
    /\ calls = [c \in Calls |-> Idle]

\* the database becomes what the handler left
Commit(r) ==
    /\ r.db.productSeq <= MaxProducts
    /\ r.db.historySeq <= MaxHistory
    /\ products' = r.db.products
    /\ history' = r.db.history
    /\ productSeq' = r.db.productSeq
    /\ historySeq' = r.db.historySeq
    /\ UNCHANGED calls

Create == \E body \in CreateBodies : \E r \in {CreateProduct(Db, body)} : Commit(r)

Update ==
    \E id \in Ids, body \in UpdateBodies :
        \E r \in {UpdateProduct(Db, id, body)} : Commit(r)

Delete == \E id \in Ids : \E r \in {DeleteProduct(Db, id)} : Commit(r)

Import == \E file \in CsvFiles : \E r \in {ImportProducts(Db, file)} : Commit(r)

Next == Create \/ Update \/ Delete \/ Import

Spec == Init /\ [][Next]_vars

---------------------------------------------------------------------------
(* Requests in flight together: every await of a handler is a step, and the *)
(* store runs one statement at a time                                       *)

\* POST / passes validation and opens its connection, or is answered 400
PostCreate(c) ==
    \E body \in RaceBodies :
        /\ calls[c].pc = "idle"
        /\ calls' = [calls EXCEPT ![c] =
                        IF CreateValid(body)
                        THEN [Idle EXCEPT !.op = "create", !.pc = "select",
                                          !.body = Sanitize(body)]
                        ELSE [Idle EXCEPT !.op = "create", !.pc = "done",
                                          !.code = 400]]
        /\ UNCHANGED <<products, history, productSeq, historySeq>>

\* await db.get('SELECT id FROM products WHERE name = ?') and the 409
CreateSelect(c) ==
    /\ calls[c].op = "create" /\ calls[c].pc = "select"
    /\ calls' = [calls EXCEPT ![c] =
                    IF SelectByName(products, calls[c].body.name) # {}
                    THEN [@ EXCEPT !.pc = "done", !.code = 409]
                    ELSE [@ EXCEPT !.pc = "insert"]]
    /\ UNCHANGED <<products, history, productSeq, historySeq>>

\* await db.run('INSERT INTO products ...') ; a rejected statement throws into
\* the catch block, which answers 500
CreateInsert(c) ==
    /\ calls[c].op = "create" /\ calls[c].pc = "insert"
    /\ \E row \in {NewProductRow(productSeq + 1, calls[c].body)} :
        IF UniqueViolation(products, row)
        THEN /\ calls' = [calls EXCEPT ![c] = [@ EXCEPT !.pc = "done", !.code = 500]]
             /\ UNCHANGED <<products, history, productSeq, historySeq>>
        ELSE /\ productSeq < MaxProducts
             /\ products' = products \cup {row}
             /\ productSeq' = row.id
             /\ calls' = [calls EXCEPT ![c] = [@ EXCEPT !.pc = "history", !.id = row.id]]
             /\ UNCHANGED <<history, historySeq>>

\* await db.run('INSERT INTO inventory_history ...') and the 201
CreateInsertHistory(c) ==
    /\ calls[c].op = "create" /\ calls[c].pc = "history"
    /\ historySeq < MaxHistory
    /\ history' = InitialHistory(history, historySeq + 1, calls[c].id,
                                 calls[c].body.stock)
    /\ historySeq' = historySeq + 1
    /\ calls' = [calls EXCEPT ![c] = [@ EXCEPT !.pc = "done", !.code = 201]]
    /\ UNCHANGED <<products, productSeq>>

\* POST /import/products reads its file, or is answered 400
PostImport(c) ==
    \E file \in RaceFiles :
        /\ calls[c].pc = "idle"
        /\ calls' = [calls EXCEPT ![c] =
                        IF ~file.present \/ file.malformed
                        THEN [Idle EXCEPT !.op = "import", !.pc = "done",
                                          !.code = 400]
                        ELSE IF file.rows = <<>>
                        THEN [Idle EXCEPT !.op = "import", !.pc = "done",
                                          !.code = 200]
                        ELSE [Idle EXCEPT !.op = "import", !.pc = "select",
                                          !.rows = file.rows]]
        /\ UNCHANGED <<products, history, productSeq, historySeq>>

\* the call after the row it is on: the next row, or the answer
NextRow(call) ==
    IF call.processed >= Len(call.rows)
    THEN [call EXCEPT !.pc = "done", !.code = 200]
    ELSE [call EXCEPT !.pc = "select"]

\* mutant of SkipRow: the first row in error ends the import
SkipRowAndStop(call, message) ==
    [call EXCEPT !.skipped = @ + 1, !.errors = Append(@, message),
                 !.pc = "done", !.code = 200]

\* errors.push({ error: message }); skipped++; continue
SkipRow(call, message) ==
    NextRow([call EXCEPT !.skipped = @ + 1, !.errors = Append(@, message)])

\* processed++ and the checks of one row up to the INSERT
ImportSelect(c) ==
    /\ calls[c].op = "import" /\ calls[c].pc = "select"
    /\ \E call \in {[calls[c] EXCEPT !.processed = @ + 1]} :
       \E row \in {CsvRow(call.rows[call.processed])} :
        calls' = [calls EXCEPT ![c] =
            IF Falsy(row.name) THEN SkipRow(call, "Product name is required")
            ELSE IF SelectByName(products, row.name) # {}
            THEN SkipRow(call, "Product with this name already exists")
            ELSE IF CsvProduct(0, row).stock < 0
            THEN SkipRow(call, "Stock cannot be negative")
            ELSE [call EXCEPT !.pc = "insert"]]
    /\ UNCHANGED <<products, history, productSeq, historySeq>>

\* await db.run('INSERT INTO products ...') of the row; a rejected statement
\* throws into the catch block of the row
ImportInsert(c) ==
    /\ calls[c].op = "import" /\ calls[c].pc = "insert"
    /\ \E product \in {CsvProduct(productSeq + 1,
                                   CsvRow(calls[c].rows[calls[c].processed]))} :
        IF UniqueViolation(products, product)
        THEN /\ calls' = [calls EXCEPT ![c] = SkipRow(@, "UNIQUE constraint failed")]
             /\ UNCHANGED <<products, history, productSeq, historySeq>>
        ELSE /\ productSeq < MaxProducts
             /\ products' = products \cup {product}
             /\ productSeq' = product.id
             /\ calls' = [calls EXCEPT ![c] =
                            IF product.stock > 0
                            THEN [@ EXCEPT !.pc = "history", !.id = product.id]
                            ELSE NextRow([@ EXCEPT !.added = @ + 1,
                                                   !.id = product.id])]
             /\ UNCHANGED <<history, historySeq>>

\* await db.run('INSERT INTO inventory_history ...') of the row; added++
ImportInsertHistory(c) ==
    /\ calls[c].op = "import" /\ calls[c].pc = "history"
    /\ historySeq < MaxHistory
    /\ history' = ImportHistory(history, historySeq + 1,
                                CsvProduct(calls[c].id,
                                           CsvRow(calls[c].rows[calls[c].processed])))
    /\ historySeq' = historySeq + 1
    /\ calls' = [calls EXCEPT ![c] = NextRow([@ EXCEPT !.added = @ + 1])]
    /\ UNCHANGED <<products, productSeq>>

NextInterleaved ==
    \E c \in Calls :
        \/ PostCreate(c)
        \/ CreateSelect(c)
        \/ CreateInsert(c)
        \/ CreateInsertHistory(c)
        \/ PostImport(c)
        \/ ImportSelect(c)
        \/ ImportInsert(c)
        \/ ImportInsertHistory(c)

Interleaved == Init /\ [][NextInterleaved]_vars

---------------------------------------------------------------------------
(* Updates and deletes in flight together, each at one of its awaited store
   calls; a call that was answered takes the next request *)

\* the history rows the racing requests may write
MaxRaceHistory == 3

\* PUT /:id passes validation, or is answered 400
PutUpdate(c) ==
    \E id \in RaceIds, body \in RaceUpdates :
        /\ calls[c].pc = "idle"
        /\ calls' = [calls EXCEPT ![c] =
                        IF UpdateValid(id, body)
                        THEN [Idle EXCEPT !.op = "update", !.pc = "select",
                                          !.id = id, !.body = Sanitize(body)]
                        ELSE [Idle EXCEPT !.op = "update", !.pc = "done",
                                          !.code = 400]]
        /\ UNCHANGED <<products, history, productSeq, historySeq>>

\* the statement a PUT runs after its checks: the history INSERT when the
\* stock changes, else the UPDATE
AfterChecks(call) ==
    IF StockChanging(call.body.stock, call.cur) THEN "history" ELSE "update"

\* await db.get('SELECT * FROM products WHERE id = ?') and the 404
UpdateSelect(c) ==
    /\ calls[c].op = "update" /\ calls[c].pc = "select"
    /\ calls' = [calls EXCEPT ![c] =
                    IF SelectById(products, calls[c].id) = {}
                    THEN [@ EXCEPT !.pc = "done", !.code = 404]
                    ELSE LET call == [@ EXCEPT !.cur =
                                        CHOOSE p \in products : p.id = calls[c].id]
                         IN  IF NameChanging(call.body.name, call.cur)
                             THEN [call EXCEPT !.pc = "name"]
                             ELSE [call EXCEPT !.pc = AfterChecks(call)]]
    /\ UNCHANGED <<products, history, productSeq, historySeq>>

\* await db.get('SELECT id FROM products WHERE name = ? AND id != ?') and
\* the 409
UpdateSelectName(c) ==
    /\ calls[c].op = "update" /\ calls[c].pc = "name"
    /\ calls' = [calls EXCEPT ![c] =
                    IF SelectByNameNotId(products, calls[c].body.name,
                                         calls[c].id) # {}
                    THEN [@ EXCEPT !.pc = "done", !.code = 409]
                    ELSE [@ EXCEPT !.pc = AfterChecks(calls[c])]]
    /\ UNCHANGED <<products, history, productSeq, historySeq>>

\* await db.run('INSERT INTO inventory_history ...') with the stock that was
\* read by the SELECT
UpdateInsertHistory(c) ==
    /\ calls[c].op = "update" /\ calls[c].pc = "history"
    /\ historySeq < MaxRaceHistory
    /\ history' = ManualUpdateHistory(history, historySeq + 1, calls[c].cur,
                                      calls[c].body.stock)
    /\ historySeq' = historySeq + 1
    /\ calls' = [calls EXCEPT ![c] = [@ EXCEPT !.pc = "update"]]
    /\ UNCHANGED <<products, productSeq>>

\* await db.run('UPDATE products SET ... WHERE id = ?') on the row the store
\* holds now, none included, and the answer; a rejected statement throws
\* into the catch block, which answers 500
UpdateRun(c) ==
    /\ calls[c].op = "update" /\ calls[c].pc = "update"
    /\ IF SelectById(products, calls[c].id) = {}
       THEN /\ calls' = [calls EXCEPT ![c] = [@ EXCEPT !.pc = "done", !.code = 200]]
            /\ UNCHANGED products
       ELSE \E stored \in SelectById(products, calls[c].id) :
            \E merged \in {MergedRow(stored, calls[c].body)} :
                IF UniqueViolation(products, merged)
                THEN /\ calls' = [calls EXCEPT ![c] =
                                    [@ EXCEPT !.pc = "done", !.code = 500]]
                     /\ UNCHANGED products
                ELSE /\ products' = (products \ {stored}) \cup {merged}
                     /\ calls' = [calls EXCEPT ![c] =
                                    [@ EXCEPT !.pc = "done", !.code = 200]]
    /\ UNCHANGED <<history, productSeq, historySeq>>

\* DELETE /:id starts
DeleteRequest(c) ==
    \E id \in RaceIds :
        /\ calls[c].pc = "idle"
        /\ calls' = [calls EXCEPT ![c] =
                        [Idle EXCEPT !.op = "delete", !.pc = "select", !.id = id]]
        /\ UNCHANGED <<products, history, productSeq, historySeq>>

\* await db.get('SELECT * FROM products WHERE id = ?') and the 404
DeleteSelect(c) ==
    /\ calls[c].op = "delete" /\ calls[c].pc = "select"
    /\ calls' = [calls EXCEPT ![c] =
                    IF SelectById(products, calls[c].id) = {}
                    THEN [@ EXCEPT !.pc = "done", !.code = 404]
                    ELSE [@ EXCEPT !.pc = "history"]]
    /\ UNCHANGED <<products, history, productSeq, historySeq>>

\* await db.run('DELETE FROM inventory_history WHERE product_id = ?')
DeleteRunHistory(c) ==
    /\ calls[c].op = "delete" /\ calls[c].pc = "history"
    /\ history' = DeleteHistoryOf(history, calls[c].id)
    /\ calls' = [calls EXCEPT ![c] = [@ EXCEPT !.pc = "product"]]
    /\ UNCHANGED <<products, productSeq, historySeq>>

\* await db.run('DELETE FROM products WHERE id = ?') and the answer
DeleteRunProduct(c) ==
    /\ calls[c].op = "delete" /\ calls[c].pc = "product"
    /\ products' = products \ SelectById(products, calls[c].id)
    /\ calls' = [calls EXCEPT ![c] = [@ EXCEPT !.pc = "done", !.code = 200]]
    /\ UNCHANGED <<history, productSeq, historySeq>>

\* the answer was sent: the client may send its next request
Answered(c) ==
    /\ calls[c].pc = "done"
    /\ calls' = [calls EXCEPT ![c] = Idle]
    /\ UNCHANGED <<products, history, productSeq, historySeq>>

NextRacing ==
    \E c \in Calls :
        \/ PostCreate(c)
        \/ CreateSelect(c)
        \/ CreateInsert(c)
        \/ CreateInsertHistory(c)
        \/ PutUpdate(c)
        \/ UpdateSelect(c)
        \/ UpdateSelectName(c)
        \/ UpdateInsertHistory(c)
        \/ UpdateRun(c)
        \/ DeleteRequest(c)
        \/ DeleteSelect(c)
        \/ DeleteRunHistory(c)
        \/ DeleteRunProduct(c)
        \/ Answered(c)

Racing == Init /\ [][NextRacing]_vars

\* mutant of Fail: the writes of the failed request are rolled back, as a
\* transaction around them would
FailUndoes(c) ==
    /\ calls[c].pc \notin {"idle", "done"}
    /\ calls' = [calls EXCEPT ![c] = [@ EXCEPT !.pc = "done", !.code = 500]]
    /\ products' = IF calls[c].op = "create" /\ calls[c].pc = "history"
                   THEN products \ SelectById(products, calls[c].id)
                   ELSE products
    /\ history' = IF /\ calls[c].op = "update" /\ calls[c].pc = "update"
                     /\ StockChanging(calls[c].body.stock, calls[c].cur)
                  THEN SelectSeq(history, LAMBDA r : r.id # historySeq)
                  ELSE history
    /\ UNCHANGED <<productSeq, historySeq>>

\* an awaited store call of a request in flight rejects, or the request dies
\* there: the catch block answers 500 and nothing that was written is undone
Fail(c) ==
    /\ calls[c].pc \notin {"idle", "done"}
    /\ calls' = [calls EXCEPT ![c] = [@ EXCEPT !.pc = "done", !.code = 500]]
    /\ UNCHANGED <<products, history, productSeq, historySeq>>

\* no request but c is in flight
Alone(c) == \A d \in Calls \ {c} : calls[d].pc = "idle"

\* requests one at a time, each of which may fail at any of its store calls
NextFailing ==
    \E c \in Calls :
        /\ Alone(c)
        /\ \/ PostCreate(c)
           \/ CreateSelect(c)
           \/ CreateInsert(c)
           \/ CreateInsertHistory(c)
           \/ PutUpdate(c)
           \/ UpdateSelect(c)
           \/ UpdateSelectName(c)
           \/ UpdateInsertHistory(c)
           \/ UpdateRun(c)
           \/ DeleteRequest(c)
           \/ DeleteSelect(c)
           \/ DeleteRunHistory(c)
           \/ DeleteRunProduct(c)
           \/ Answered(c)
           \/ Fail(c)

Failing == Init /\ [][NextFailing]_vars

---------------------------------------------------------------------------
(* Properties *)

\* the rows of history h that belong to product id, in insertion order
RowsOf(h, id) == SelectSeq(h, LAMBDA r : r.product_id = id)

\* the preconditions of CreateProduct: valid fields and a name nobody holds
CreatePre(body) ==
    CreateValid(body) /\ \A p \in products : p.name # Trim(body.name)

\* C1: every valid CreateProduct, a stock of 0 included, answers 201; right
\* after it GetProduct of the new id returns a product whose stock is the
\* requested stock, and inventory_history holds exactly one row of that
\* product: old_quantity 0, new_quantity = change_amount = the stock, reason
\* "Initial stock".
C1_CreateStoresStockAndInitialRow ==
    \A body \in CreateBodies :
        CreatePre(body) =>
            \A r \in {CreateProduct(Db, body)} :
                /\ r.code = 201
                /\ Cardinality(r.data) = 1
                /\ \A new \in r.data :
                    /\ GetProduct(r.db, new.id).code = 200
                    /\ \A p \in GetProduct(r.db, new.id).data :
                        p.stock = body.stock.v
                    /\ Len(RowsOf(r.db.history, new.id)) = 1
                    /\ \A i \in 1..Len(RowsOf(r.db.history, new.id)) :
                        LET row == RowsOf(r.db.history, new.id)[i]
                        IN  /\ row.old_quantity = 0
                            /\ row.new_quantity = body.stock.v
                            /\ row.change_amount = body.stock.v
                            /\ row.reason = "Initial stock"

\* a product created with stock 0 stands with its one "Initial stock" row
C1_Witness ==
    \E p \in products :
        /\ p.stock = 0
        /\ Len(RowsOf(history, p.id)) = 1
        /\ RowsOf(history, p.id)[1].reason = "Initial stock"
        /\ RowsOf(history, p.id)[1].new_quantity = 0

\* the preconditions of UpdateProduct: valid fields, an existing product, and
\* a new name no other product holds
UpdatePre(id, body) ==
    /\ UpdateValid(id, body)
    /\ \E p \in products : p.id = id
    /\ body.name = Undefined
       \/ \A p \in products : p.id # id => p.name # Trim(body.name)

\* C2: every UpdateProduct of an existing product with stock A whose request
\* supplies a stock B # A appends exactly one history row, of that product,
\* with old_quantity A, new_quantity B, change_amount B - A and reason
\* "Manual update", and the stored stock becomes B.
C2_StockChangeAppendsRow ==
    \A cur \in products : \A body \in UpdateBodies :
        (/\ body.stock.t # "undef" /\ body.stock.v # cur.stock
         /\ UpdatePre(cur.id, body)) =>
            \A r \in {UpdateProduct(Db, cur.id, body)} :
                /\ r.code = 200
                /\ Len(r.db.history) = Len(history) + 1
                /\ SubSeq(r.db.history, 1, Len(history)) = history
                /\ LET row == r.db.history[Len(r.db.history)]
                   IN  /\ row.product_id = cur.id
                       /\ row.old_quantity = cur.stock
                       /\ row.new_quantity = body.stock.v
                       /\ row.change_amount = body.stock.v - cur.stock
                       /\ row.reason = "Manual update"
                /\ \A p \in r.db.products : p.id = cur.id => p.stock = body.stock.v

\* an update has moved a stock down: the newest row records it and the
\* product holds the new quantity
C2_Witness ==
    /\ Len(history) > 0
    /\ LET row == history[Len(history)]
       IN  /\ row.reason = "Manual update"
           /\ row.change_amount < 0
           /\ \E p \in products :
                p.id = row.product_id /\ p.stock = row.new_quantity

\* C3: an UpdateProduct whose request omits stock, or supplies a stock equal
\* to the product's current stock, leaves inventory_history as it was.
C3_NoRowWhenStockUnchanged ==
    \A cur \in products : \A body \in UpdateBodies :
        (\/ body.stock.t = "undef"
         \/ body.stock.t \in {"num", "str"} /\ body.stock.v = cur.stock) =>
            UpdateProduct(Db, cur.id, body).db.history = history

\* C4: a DeleteProduct(id) of an existing product succeeds; afterwards no
\* history row of id remains, the product row is gone, GetProduct(id) and
\* GetHistory(id) answer 404, and the rows of the other products are the ones
\* there were, in the same order.
C4_DeleteRemovesProductAndHistory ==
    \A cur \in products :
        \A r \in {DeleteProduct(Db, cur.id)} :
            /\ r.code = 200
            /\ \A i \in 1..Len(r.db.history) : r.db.history[i].product_id # cur.id
            /\ \A p \in r.db.products : p.id # cur.id
            /\ GetProduct(r.db, cur.id).code = 404
            /\ GetHistory(r.db, cur.id).code = 404
            /\ \A other \in Ids \ {cur.id} :
                RowsOf(r.db.history, other) = RowsOf(history, other)
            /\ r.db.products = {p \in products : p.id # cur.id}

\* a product that had history was deleted while another product keeps its
\* own rows: ids of both tables were handed out that no row carries any more
C4_Witness ==
    /\ productSeq > Cardinality(products)
    /\ historySeq > Len(history)
    /\ products # {}
    /\ history # <<>>

\* C5: in every reachable state no two products have the same name; the
\* handlers' own duplicate checks are what keeps it so: the UNIQUE index of
\* the store never has to reject a statement (no request is answered 500).
C5_NamesUnique ==
    /\ \A p, q \in products : p.name = q.name => p = q
    /\ \A body \in CreateBodies : CreateProduct(Db, body).code # 500
    /\ \A id \in Ids, body \in UpdateBodies : UpdateProduct(Db, id, body).code # 500

\* two products stand, and a create and a rename asking for a name already
\* held are both refused
C5_Witness ==
    /\ Cardinality(products) = 2
    /\ \E body \in CreateBodies : CreateProduct(Db, body).code = 409
    /\ \E id \in Ids, body \in UpdateBodies : UpdateProduct(Db, id, body).code = 409

\* C6: in every reachable state every stored product has stock >= 0,
\* whatever the requests asked for.
C6_StockNeverNegative == \A p \in products : p.stock >= 0

\* an update wrote a stock, an import stored a product without stock, and an
\* update asking for a negative stock is refused
C6_Witness ==
    /\ \E row \in HistoryRows : row.reason = "Manual update"
    /\ \E p \in products : RowsOf(history, p.id) = <<>>
    /\ \E p \in products, body \in UpdateBodies :
        body.stock.v < 0 /\ UpdateProduct(Db, p.id, body).code = 400

\* C7: every inventory_history row has change_amount = new_quantity -
\* old_quantity, whichever handler wrote it.
C7_ChangeIsDifference ==
    \A r \in HistoryRows : r.change_amount = r.new_quantity - r.old_quantity

\* rows written by an update that lowered a stock and by a create coexist
C7_Witness ==
    /\ \E r \in HistoryRows : r.reason = "Manual update" /\ r.change_amount < 0
    /\ \E r \in HistoryRows : r.reason = "Initial stock" /\ r.change_amount > 0

\* C8: a valid CreateProduct is answered 409 exactly when a product holds the
\* requested name, compared exactly (case matters); a 409 leaves products and
\* inventory_history unchanged.
C8_DuplicateCreateRejected ==
    \A body \in CreateBodies :
        CreateValid(body) =>
            \A r \in {CreateProduct(Db, body)} :
                /\ r.code = 409 <=> \E p \in products : p.name = Trim(body.name)
                /\ r.code = 409 =>
                    r.db.products = products /\ r.db.history = history

\* a create of a held name is refused while one whose name differs from it in
\* case only is accepted
C8_Witness ==
    \E body, other \in CreateBodies :
        /\ CreateProduct(Db, body).code = 409
        /\ CreateProduct(Db, body).db = Db
        /\ Fold(Trim(other.name)) = Fold(Trim(body.name))
        /\ CreateProduct(Db, other).code = 201

\* C9: a valid UpdateProduct of an existing product that supplies a name held
\* by a different product is answered 409; one that supplies the product's
\* own current name succeeds and leaves the name as it was.
C9_RenameCollision ==
    \A cur \in products : \A body \in UpdateBodies :
        (body.name # Undefined /\ UpdateValid(cur.id, body)) =>
            \A r \in {UpdateProduct(Db, cur.id, body)} :
                /\ (\E p \in products : p.id # cur.id /\ p.name = Trim(body.name))
                        => r.code = 409
                /\ Trim(body.name) = cur.name =>
                    /\ r.code = 200
                    /\ \A p \in r.db.products : p.id = cur.id => p.name = cur.name

\* a rename to another product's name is refused and a rename of the same
\* product to its own name is accepted
C9_Witness ==
    \E cur \in products : \E body, own \in UpdateBodies :
        /\ \E p \in products : p.id # cur.id /\ p.name = Trim(body.name)
        /\ UpdateProduct(Db, cur.id, body).code = 409
        /\ Trim(own.name) = cur.name
        /\ UpdateProduct(Db, cur.id, own).code = 200

\* stocks on which the bucket predicates are compared
MaxStock == 12

\* the bucket the specification assigns to a stock
BucketOf(stock) ==
    IF stock = 0 THEN "out_of_stock"
    ELSE IF stock <= 10 THEN "low_stock"
    ELSE "in_stock"

BucketQuery(bucket) == [NoQuery EXCEPT !.status = bucket]

\* C10: ListProducts filtered by a stock bucket matches exactly the products
\* with stock = 0 (out_of_stock), 0 < stock <= 10 (low_stock), stock > 10
\* (in_stock); every non-negative stock lies in exactly one bucket, so the
\* three result sets are pairwise disjoint and together are all products.
C10_BucketsPartition ==
    /\ \A b \in StockBuckets :
        /\ SearchValid(BucketQuery(b))
        /\ ListMatching(Db, BucketQuery(b))
            = {p \in products : BucketOf(p.stock) = b}
    /\ \A b, c \in StockBuckets :
        b # c => ListMatching(Db, BucketQuery(b))
                    \cap ListMatching(Db, BucketQuery(c)) = {}
    /\ UNION {ListMatching(Db, BucketQuery(b)) : b \in StockBuckets} = products
    /\ \A n \in 0..MaxStock :
        Cardinality({b \in StockBuckets : StockFilter(b, n)}) = 1

\* products stand on both sides of a bucket edge
C10_Witness ==
    /\ \E p \in products : p.stock = LowStockMax
    /\ \E p \in products : p.stock \in {0, LowStockMax + 1}

\* the filter of request q alone, without paging or sorting
Filter(q) == [NoQuery EXCEPT !.name = q.name, !.category = q.category,
                             !.status = q.status]

\* the request q without its paging: everything that matches on one page
Unpaged(q) == [q EXCEPT !.page = Undefined, !.limit = "100"]

\* C11: a ListProducts request that passes validation (page >= 1, 1 <= limit
\* <= 100) answers with total = the number of products its filter matches,
\* whatever page, limit, sort and order are; pages = ceil(total / limit); the
\* items are the slice of at most limit products at offset (page - 1) * limit
\* of the unpaged listing; a page beyond pages has no items and the same total.
C11_Pagination ==
    \A base \in {Unpaged(q) : q \in ListQueries} :
        LET total == Cardinality({p \in products : ListWhere(base, p)})
            fulls == ListProducts(Db, base)
            plain == ListProducts(Db, Filter(base))
        IN  \A q \in {x \in ListQueries : Unpaged(x) = base} :
                SearchValid(q) =>
                    \A r \in ListProducts(Db, q) :
                        LET limit == LimitOf(q)
                            offset == (PageOf(q) - 1) * limit
                        IN  /\ r.code = 200
                            /\ r.pagination.total = total
                            /\ \A o \in plain : o.pagination.total = total
                            /\ r.pagination.pages * limit >= total
                            /\ (r.pagination.pages - 1) * limit < total \/ total = 0
                            /\ total = 0 => r.pagination.pages = 0
                            /\ Len(r.data) <= limit
                            /\ \E full \in fulls :
                                /\ Len(full.data) = total
                                /\ Len(r.data) =
                                    (IF offset >= total THEN 0
                                     ELSE IF offset + limit <= total THEN limit
                                     ELSE total - offset)
                                /\ \A i \in 1..Len(r.data) :
                                    r.data[i] = full.data[offset + i]
                            /\ PageOf(q) > r.pagination.pages => r.data = <<>>

\* two products match, a limit of 1 splits them over two pages and a third
\* page lies beyond them
C11_Witness ==
    /\ Cardinality(products) = 2
    /\ \E q \in ListQueries :
        /\ q.limit = "1" /\ q.page = "3" /\ SearchValid(q)
        /\ \E r \in ListProducts(Db, q) :
            r.pagination.pages = 2 /\ r.data = <<>> /\ r.pagination.total = 2
    /\ \E q \in ListQueries :
        /\ q.limit = "1" /\ q.page = "2" /\ q.sort = "stock"
        /\ \E r \in ListProducts(Db, q) : Len(r.data) = 1

\* C13: a ListProducts request whose sort field is none of name, category,
\* brand, stock, status, created_at, updated_at is answered successfully,
\* with the matching products sorted by name ascending.
C13_UnknownSortFallsBack ==
    \A q \in ListQueries :
        (q.sort # Undefined /\ q.sort \notin AllowedSortFields
         /\ SearchValid([q EXCEPT !.sort = Undefined])) =>
            \A r \in ListProducts(Db, q) :
                /\ r.code = 200
                /\ \A i, j \in 1..Len(r.data) :
                    i < j => TextLess(r.data[i].name, r.data[j].name)

\* C12: unfiltered GetSummary reports for each of the three stock buckets a
\* stockLevels count equal to the number of current products whose stock lies
\* in that bucket, 0 for a bucket that holds no product.
C12_StockLevelsCountEveryBucket ==
    products # {} =>
        \A b \in StockBuckets :
            /\ b \in DOMAIN GetSummary(Db, NoQuery).stockLevels
            /\ GetSummary(Db, NoQuery).stockLevels[b]
                = Cardinality({p \in products : BucketOf(p.stock) = b})

\* the values of object f added up
RECURSIVE SumValues(_)
SumValues(f) ==
    IF DOMAIN f = {} THEN 0
    ELSE LET k == CHOOSE x \in DOMAIN f : TRUE
         IN  f[k] + SumValues([x \in DOMAIN f \ {k} |-> f[x]])

\* C20: for every filter {category?, stockBucket?} GetSummary returns
\* totalProducts = the number of products of the filtered set and
\* totalInventoryValue = the sum of their stock (0 for the empty set); the
\* counts of statusDistribution and those of stockLevels each sum to
\* totalProducts.
C20_SummaryTotals ==
    \A q \in SummaryQueries :
        \A r \in {GetSummary(Db, q)} :
            LET S == {p \in products :
                        /\ q.category = Undefined \/ p.category = q.category
                        /\ q.status = Undefined \/ BucketOf(p.stock) = q.status}
            IN  /\ r.totalProducts = Cardinality(S)
                /\ r.totalInventoryValue = StockTotal(S)
                /\ SumValues(r.statusDistribution) = r.totalProducts
                /\ SumValues(r.stockLevels) = r.totalProducts

\* requests that supply one field each, the empty text and 0 among the values
MergeBodies ==
    {[NoBody EXCEPT !.unit = x] : x \in {"", "box"}}
    \cup {[NoBody EXCEPT !.category = x] : x \in {"", "office"}}
    \cup {[NoBody EXCEPT !.brand = x] : x \in {"", "Bic"}}
    \cup {[NoBody EXCEPT !.status = x] : x \in Statuses}
    \cup {[NoBody EXCEPT !.image = x] : x \in {"https://y"}}
    \cup {[NoBody EXCEPT !.stock = x] : x \in {NumStock(0), NumStock(11)}}
    \cup {[NoBody EXCEPT !.name = x] : x \in {"Pencil"}}

TextFields == {"name", "unit", "category", "brand", "status", "image"}

\* C14: UpdateProduct merges: every field among name, unit, category, brand,
\* stock, status and image that a valid request supplies is stored as
\* supplied, 0 for stock and the empty text for unit, category and brand
\* included, and every field the request omits keeps its stored value.
C14_MergeSemantics ==
    \A cur \in products : \A body \in UpdateBodies \cup MergeBodies :
        UpdatePre(cur.id, body) =>
            \A r \in {UpdateProduct(Db, cur.id, body)} :
                /\ r.code = 200
                /\ \A p \in r.db.products :
                    p.id = cur.id =>
                        /\ \A f \in TextFields :
                            p[f] = IF body[f] = Undefined THEN cur[f]
                                   ELSE Sanitize(body)[f]
                        /\ p.stock = IF body.stock.t = "undef" THEN cur.stock
                                     ELSE body.stock.v

\* history h2 is history h with rows added at its end
Extends(h2, h) == Len(h2) >= Len(h) /\ SubSeq(h2, 1, Len(h)) = h

\* C15: history is append-only. CreateProduct, UpdateProduct and the CSV
\* import leave every existing inventory_history row as it is and only add
\* rows after them; DeleteProduct(id) removes the rows that reference id and
\* no other row, and changes no field of the rows that stay.
C15_HistoryAppendOnly ==
    /\ \A body \in CreateBodies : Extends(CreateProduct(Db, body).db.history, history)
    /\ \A id \in Ids, body \in UpdateBodies :
        Extends(UpdateProduct(Db, id, body).db.history, history)
    /\ \A file \in CsvFiles : Extends(ImportProducts(Db, file).db.history, history)
    /\ \A id \in Ids :
        \A r \in {DeleteProduct(Db, id)} :
            /\ RowSet(r.db.history) \subseteq HistoryRows
            /\ \A row \in HistoryRows :
                row.product_id # id => row \in RowSet(r.db.history)
            /\ \A i, j \in 1..Len(r.db.history) :
                i < j => r.db.history[i].id < r.db.history[j].id
            /\ r.code # 200 => r.db.history = history

\* a delete took the older row away and the newer row of another product
\* stands as it was written
C15_Witness ==
    /\ Len(history) = 1
    /\ history[1].id = 2
    /\ \E p \in products : p.id = history[1].product_id

\* C16: in every reachable state every stored product's status is one of
\* active, inactive, discontinued, and a product created without a status is
\* stored as active.
C16_StatusEnum ==
    /\ \A p \in products : p.status \in Statuses
    /\ \A body \in CreateBodies :
        body.status = Undefined =>
            \A p \in CreateProduct(Db, body).data : p.status = "active"

\* the cells of a CSV row sent as the body of POST / : empty cells are absent
\* fields, the stock cell is the text it is
CsvBody(row) ==
    LET cell(x) == IF x = Undefined \/ x = "" THEN Undefined ELSE x
    IN  [name |-> cell(row.name), unit |-> cell(row.unit),
         category |-> cell(row.category), brand |-> cell(row.brand),
         stock |-> IF row.stock = Undefined \/ row.stock = "" THEN NoStock
                   ELSE IF IsIntText(Trim(row.stock))
                        THEN StrStock(ParseInt(row.stock).v)
                   ELSE TextStock,
         status |-> cell(row.status), image |-> cell(row.image)]

\* rows the import is compared with CreateProduct on
CsvRowChecks == CsvRowInputs \cup {CsvCells("Pencil", "11")}

\* C18: every product a CSV import adds with stock > 0 gets exactly one
\* history row, old_quantity 0, new_quantity = change_amount = the stock,
\* reason "Imported from CSV", and its stored fields are those CreateProduct
\* stores for the same row.
C18_ImportEqualsCreate ==
    \A row \in CsvRowChecks :
        \A a \in {ImportRow(ImportStart(Db), CsvRow(row))} :
            \A p \in a.products \ products :
                p.stock > 0 =>
                    /\ Len(RowsOf(a.history, p.id)) = 1
                    /\ \A i \in 1..Len(RowsOf(a.history, p.id)) :
                        LET h == RowsOf(a.history, p.id)[i]
                        IN  /\ h.old_quantity = 0
                            /\ h.new_quantity = p.stock
                            /\ h.change_amount = p.stock
                            /\ h.reason = "Imported from CSV"
                    /\ CreateProduct(Db, CsvBody(row)).data = {p}

\* C17: a CreateProduct that fails because its name is held is answered 409,
\* never 500, also when two CreateProduct requests of the same name
\* interleave at their store calls: then one answers 201 and the other 409.
C17_DuplicateIsConflict ==
    /\ \A c \in Calls :
        (calls[c].op = "create" /\ calls[c].pc = "done") => calls[c].code # 500
    /\ \A c, d \in Calls :
        (/\ c # d
         /\ calls[c].op = "create" /\ calls[c].pc = "done" /\ calls[c].code # 400
         /\ calls[d].op = "create" /\ calls[d].pc = "done" /\ calls[d].code # 400
         /\ calls[c].body.name = calls[d].body.name) =>
            /\ {calls[c].code, calls[d].code} \subseteq {201, 409}
            /\ ~(calls[c].code = 201 /\ calls[d].code = 201)

\* the tables and their counters are what they were
StoreUnchanged == UNCHANGED <<products, history, productSeq, historySeq>>

\* call `new` is call `old` with one more row skipped and one more error
Skipped(old, new) ==
    /\ new.skipped = old.skipped + 1
    /\ Len(new.errors) = Len(old.errors) + 1
    /\ new.added = old.added

C21_RecentActivityIgnoresBucket ==
    \A q \in SummaryQueries :
        \A r \in {GetSummary(Db, q)},
           plain \in {GetSummary(Db, [q EXCEPT !.status = Undefined])} :
            /\ [q EXCEPT !.status = Undefined] \in SummaryQueries
            /\ r.recentActivity = plain.recentActivity
            /\ r.recentActivity =
                Cardinality({i \in 1..Len(history) :
                    q.category = Undefined
                    \/ \E p \in products :
                        /\ p.id = history[i].product_id
                        /\ p.category = q.category})

\* a bucket filter that matches no product of the category leaves the rows
\* of its products counted
C21_Witness ==
    \E q \in SummaryQueries :
        /\ q.category = "tools" /\ q.status = "out_of_stock"
        /\ GetSummary(Db, q).totalProducts = 0
        /\ GetSummary(Db, q).recentActivity >= 1

\* C22: GetHistory(productId) returns all and only the history rows of the
\* product, newest first: of any two of them the one appended later comes
\* before the one appended earlier, also when they were appended in immediate
\* succession.
C22_HistoryNewestFirst ==
    \A p \in products :
        GetHistory(Db, p.id).code = 200 =>
            \A list \in GetHistoryList(Db, p.id) :
                /\ {list[k] : k \in 1..Len(list)} = GetHistory(Db, p.id).data
                /\ Len(list) = Cardinality(GetHistory(Db, p.id).data)
                /\ \A i, j \in 1..Len(list) : i < j => list[i].id > list[j].id

\* call c stands between the two writes of an update: its history row is
\* written, its UPDATE is not
BetweenUpdateWrites(c) ==
    /\ calls[c].op = "update" /\ calls[c].pc = "update"
    /\ StockChanging(calls[c].body.stock, calls[c].cur)

\* call c stands between the two writes of a create: its product row is
\* written, its history row is not
BetweenCreateWrites(c) == calls[c].op = "create" /\ calls[c].pc = "history"

\* call c is answered 500 in this step
Fails(c) == calls[c].pc # "done" /\ calls'[c].pc = "done" /\ calls'[c].code = 500

\* C23: UpdateProduct appends its history row before it applies the UPDATE
\* and CreateProduct inserts the product before its history row, nothing is
\* rolled back: a request that fails between its two writes leaves the first
\* one in the store, a history row whose new_quantity the product does not
\* hold (update) or a product without a history row (create).
C23_NoTransaction ==
    [][\A c \in Calls :
        /\ (calls[c].op = "update" /\ history' # history) =>
                /\ products' = products
                /\ calls'[c].pc = "update"
                /\ history' = Append(history, history'[Len(history')])
                /\ history'[Len(history')].product_id = calls[c].id
        /\ (calls[c].op = "update" /\ products' # products) =>
                /\ history' = history
                /\ StockChanging(calls[c].body.stock, calls[c].cur) =>
                    \E i \in 1..Len(history) :
                        /\ history[i].product_id = calls[c].id
                        /\ history[i].new_quantity = calls[c].body.stock.v
        /\ (calls[c].op = "create" /\ products' # products) =>
                /\ history' = history
                /\ calls'[c].pc = "history"
        /\ (calls[c].op = "create" /\ history' # history) =>
                /\ products' = products
                /\ \E p \in products : p.id = history'[Len(history')].product_id
        /\ (BetweenUpdateWrites(c) /\ Fails(c)) =>
                /\ StoreUnchanged
                /\ \E i \in 1..Len(history') :
                    /\ history'[i].id = historySeq
                    /\ history'[i].product_id = calls[c].id
                    /\ history'[i].new_quantity = calls[c].body.stock.v
                    /\ \A p \in products' :
                        p.id = calls[c].id => p.stock # history'[i].new_quantity
        /\ (BetweenCreateWrites(c) /\ Fails(c)) =>
                /\ StoreUnchanged
                /\ \E p \in products' : p.id = calls[c].id
                /\ RowsOf(history', calls[c].id) = <<>>]_vars

\* an update answered 500 has left its history row, whose new_quantity the
\* product does not hold, and a failed create has left a product without rows
C23_Witness ==
    /\ \E c \in Calls :
        /\ calls[c].op = "update" /\ calls[c].pc = "done" /\ calls[c].code = 500
        /\ \E i \in 1..Len(history), p \in products :
            /\ history[i].reason = "Manual update"
            /\ history[i].product_id = p.id /\ p.id = calls[c].id
            /\ history[i].new_quantity = calls[c].body.stock.v
            /\ p.stock # history[i].new_quantity
    /\ \E p \in products : RowsOf(history, p.id) = <<>>

\* C24: an UpdateProduct answered 404 or 409 leaves the store as it was: no
\* product row is changed and no history row is appended, also when the
\* request supplied a stock other than the stored one.
C24_RejectedUpdateChangesNothing ==
    \A id \in Ids, body \in UpdateBodies :
        \A r \in {UpdateProduct(Db, id, body)} :
            /\ r.code \in {404, 409} => r.db = Db
            /\ (UpdateValid(id, body) /\ SelectById(products, id) = {}) =>
                r.code = 404
            /\ (/\ UpdateValid(id, body)
                /\ \E p \in products : p.id # id /\ p.name = Trim(body.name)
                /\ \E p \in products : p.id = id /\ p.name # Trim(body.name)) =>
                r.code = 409

\* a request that names a product's id, another product's name and a stock
\* the product does not hold is answered 409 and has written nothing
C24_Witness ==
    \E cur \in products, body \in UpdateBodies :
        /\ body.stock.t = "num" /\ body.stock.v # cur.stock
        /\ UpdateProduct(Db, cur.id, body).code = 409
        /\ UpdateProduct(Db, cur.id, body).db = Db

\* C25: with requests handled one at a time, the history rows of every
\* product, in insertion order, form a chain: the first has old_quantity 0,
\* each later one has the new_quantity of the row before it as old_quantity,
\* and the last has the product's stored stock as new_quantity; a product
\* without rows has stock 0.
C25_HistoryChains ==
    \A p \in products :
        LET rows == RowsOf(history, p.id)
        IN  IF rows = <<>> THEN p.stock = 0
            ELSE /\ rows[1].old_quantity = 0
                 /\ \A i \in 2..Len(rows) :
                     rows[i].old_quantity = rows[i - 1].new_quantity
                 /\ rows[Len(rows)].new_quantity = p.stock

\* a product whose stock was changed after its creation: two rows that chain
C25_Witness ==
    \E p \in products :
        /\ Len(RowsOf(history, p.id)) = 2
        /\ RowsOf(history, p.id)[2].reason = "Manual update"
        /\ RowsOf(history, p.id)[2].old_quantity # RowsOf(history, p.id)[2].new_quantity

\* the rows, in insertion order, chain: each has the new_quantity of the row
\* before it as old_quantity
Chains(rows) ==
    \A i \in 2..Len(rows) : rows[i].old_quantity = rows[i - 1].new_quantity

\* call c is an UpdateProduct that was answered 200 and changed the stock
ChangedStock(c) ==
    /\ calls[c].op = "update" /\ calls[c].pc = "done" /\ calls[c].code = 200
    /\ StockChanging(calls[c].body.stock, calls[c].cur)

\* C26: two UpdateProduct requests that change the stock of one product, their
\* store calls interleaved in any way, have both completed: the history of
\* the product chains and its newest row holds the product's stored stock as
\* new_quantity.
C26_ConcurrentUpdatesChain ==
    \A c, d \in Calls :
        (c # d /\ ChangedStock(c) /\ ChangedStock(d) /\ calls[c].id = calls[d].id) =>
            \A p \in products :
                p.id = calls[c].id =>
                    LET rows == RowsOf(history, p.id)
                    IN  /\ Chains(rows)
                        /\ rows # <<>>
                        /\ rows[Len(rows)].new_quantity = p.stock

\* no request is in flight
Quiet == \A c \in Calls : calls[c].pc \in {"idle", "done"}

\* C27: whenever no request is in flight, the product_id of every
\* inventory_history row is the id of an existing product, whatever requests
\* ran before and however the store calls of an UpdateProduct and a
\* DeleteProduct of one product were interleaved.
C27_HistoryRefersToProduct ==
    Quiet => \A i \in 1..Len(history) :
                \E p \in products : p.id = history[i].product_id

\* the bucket a label of the dashboard stands for
BucketOfLabel(label) ==
    IF label = "Out of Stock" THEN "out_of_stock"
    ELSE IF label = "Low Stock" THEN "low_stock"
    ELSE IF label = "In Stock" THEN "in_stock"
    ELSE Null

\* the count GetSummary reports for bucket b, a missing key read as none
LevelCount(levels, b) == IF b \in DOMAIN levels THEN levels[b] ELSE 0

\* C28: the filter predicate of ListProducts and GetSummary, the CASE
\* expression of GetSummary's stockLevels and getStockStatus of the dashboard
\* put the stock of every stored product into the same one of out_of_stock,
\* low_stock, in_stock.
C28_BucketsAgree ==
    /\ \A p \in products : \A b \in StockBuckets :
        /\ StockFilter(b, p.stock) <=> (StockLevel(p.stock) = b)
        /\ StockFilter(b, p.stock)
            <=> (BucketOfLabel(GetStockStatus(p.stock).status) = b)
        /\ SummaryWhere(BucketQuery(b), p) <=> ListWhere(BucketQuery(b), p)
    /\ \A b \in StockBuckets :
        /\ LevelCount(GetSummary(Db, NoQuery).stockLevels, b)
            = ListTotal(Db, BucketQuery(b))
        /\ GetSummary(Db, BucketQuery(b)).totalProducts
            = Cardinality({p \in products :
                BucketOfLabel(GetStockStatus(p.stock).status) = b})

\* a product at the upper edge of low_stock next to one that is out of stock
C28_Witness ==
    /\ \E p \in products : p.stock = 10 /\ StockLevel(p.stock) = "low_stock"
    /\ \E p \in products :
        p.stock = 0 /\ GetStockStatus(p.stock).status = "Out of Stock"

C30_EveryProductHasHistory ==
    \A p \in products : RowsOf(history, p.id) # <<>>

====
